---- MODULE Spec2Model ----
(***************************************************************************)
(* A model of mc-rcon (src/mc-rcon.go): the RCON packet codec, the frame    *)
(* receiver, the login handshake and the interactive session driver with   *)
(* its two goroutines and the result channel.                              *)
(*                                                                         *)
(* Bytes are the integers 0..255.  A Go string or []byte is a sequence of  *)
(* bytes.  An int32 is an integer in -2^31 .. 2^31-1.                      *)
(***************************************************************************)
EXTENDS Integers, Sequences, FiniteSets, TLC

(***************************************************************************)
(* Program constants                                                       *)
(***************************************************************************)
RESPONSETYPE == 0

COMMANDTYPE == 2

LOGINTYPE == 3

MAXRECVSIZE == 4110

\* The payload size MAXRECVSIZE is computed from ("12 + 4096 + 2 bytes").
MAXPAYLOAD == 4096

\* The width of the wire header: three int32 fields (parsePacket slices at 12).
HEADERSIZE == 12

MaxInt32 == 2147483647

MinInt32 == -MaxInt32 - 1

(***************************************************************************)
(* Bounds of the model                                                     *)
(***************************************************************************)
\* Longest payload enumerated byte by byte in the codec specification.
MaxPayloadLen == 3

\* Number of input lines the command source may deliver in one run.
MaxLines == 2

\* Largest spare capacity (cap - len) of the received buffer, in bytes.
MaxSlack == 2

(***************************************************************************)
(* Byte-level helpers                                                      *)
(***************************************************************************)
Byte == 0..255

\* n copies of byte b.
Rep(b, n) == [i \in 1..n |-> b]

\* Mutant of PutInt32LE: network byte order, most significant byte first.
PutInt32BE(v) ==
    << (v \div 16777216) % 256, (v \div 65536) % 256, (v \div 256) % 256, v % 256 >>

\* binary.Write(.., binary.LittleEndian, v) for an int32 v: the four bytes of
\* v's two's complement representation, least significant first.  \div is
\* floor division and % is non-negative, so this is right for negative v.
PutInt32LE(v) ==
    << v % 256, (v \div 256) % 256, (v \div 65536) % 256, (v \div 16777216) % 256 >>

\* binary.Read(.., binary.LittleEndian, &x) for an int32 x, on four bytes.
GetInt32LE(b) ==
    b[1] + 256 * b[2] + 65536 * b[3]
      + 16777216 * (IF b[4] >= 128 THEN b[4] - 256 ELSE b[4])

\* int32 addition of a non-negative k, wrapping around at 2^31.
AddInt32(a, k) ==
    IF a > MaxInt32 - k THEN MinInt32 + (a - (MaxInt32 - k)) - 1 ELSE a + k

(***************************************************************************)
(* Packet codec                                                            *)
(***************************************************************************)
\* type rconPacket struct
rconPacket(id, type, payload) ==
    [requestID |-> id, packetType |-> type, payload |-> payload]

\* packetSize := int32(4 + 4 + len(rp.payload) + 2)
PacketSizeOf(rp) == 4 + 4 + Len(rp.payload) + 2

\* func (rp *rconPacket) serialize() []byte
serialize(rp) ==
    PutInt32LE(PacketSizeOf(rp)) \o PutInt32LE(rp.requestID)
      \o PutInt32LE(rp.packetType) \o rp.payload \o << 0, 0 >>

\* The three binary.Read calls of parsePacket.  The reader hands out the bytes
\* in order; a read that finds fewer than four bytes left fails, consumes what
\* is left and leaves its target at the zero value.
HeaderField(data, k) ==
    IF Len(data) >= 4 * k THEN GetInt32LE(SubSeq(data, 4 * k - 3, 4 * k)) ELSE 0

\* Mutant of PayloadEnd: the two bytes of padding are not added back.
PayloadEndNoPadding(data) == HeaderField(data, 1)

\* The upper slice index of data[12 : packetSize+2], an int32 sum.
PayloadEnd(data) == AddInt32(HeaderField(data, 1), 2)

\* data[12 : packetSize+2] is in range when 12 <= packetSize+2 <= cap(data).
\* The bytes between len(data) and cap(data) are the zeroes of the buffer's
\* fresh backing array.
SliceInRange(data, capacity) ==
    /\ HEADERSIZE <= PayloadEnd(data)
    /\ PayloadEnd(data) <= capacity

\* func parsePacket(data []byte) rconPacket, for a slice in range.
parsePacketCap(data, capacity) ==
    LET padded == data \o Rep(0, capacity - Len(data))
    IN  rconPacket(HeaderField(data, 2), HeaderField(data, 3),
                   SubSeq(padded, HEADERSIZE + 1, PayloadEnd(data)))

\* parsePacket on a slice with no spare capacity.
parsePacket(data) == parsePacketCap(data, Len(data))

\* func makeLoginPacket(password string, requestID int32) []byte
makeLoginPacket(password, id) == serialize(rconPacket(id, LOGINTYPE, password))

\* func makeCommandPacket(command string, requestID int32) []byte
makeCommandPacket(command, id) == serialize(rconPacket(id, COMMANDTYPE, command))

\* strings.TrimSpace on ASCII text: tab, LF, VT, FF, CR and space are trimmed.
IsSpace(b) == b \in {9, 10, 11, 12, 13, 32}

RECURSIVE TrimLeft(_)
TrimLeft(s) ==
    IF s # << >> /\ IsSpace(Head(s)) THEN TrimLeft(Tail(s)) ELSE s

RECURSIVE TrimRight(_)
TrimRight(s) ==
    IF s # << >> /\ IsSpace(s[Len(s)]) THEN TrimRight(SubSeq(s, 1, Len(s) - 1)) ELSE s

TrimSpace(s) == TrimRight(TrimLeft(s))

(***************************************************************************)
(* State                                                                   *)
(***************************************************************************)
VARIABLES
    requestID,   \* main: the session's request id, int32(rand.Int())
    mainPc,      \* main's position
    exit,        \* the process: "running", or how it ended
    loginErr,    \* what login returned ("pending" before it returns)
    conn,        \* the client's end of the connection: "none", "open", "closed"
    wire,        \* bytes the server has sent and the client has not read yet
    peerClosed,  \* the server has closed its end
    received,    \* receivePacket: the accumulator of the call in progress
    response,    \* what the last receivePacket call returned: [data, err]
    sigchan,     \* interactiveMode: a signal is buffered in sigchan
    sigPc,       \* the signal goroutine's position
    cmdPc,       \* the command goroutine's position
    input,       \* the command goroutine: the line it read
    cmdErr,      \* the command goroutine: the value it is about to send
    errchan,     \* interactiveMode: the buffered result channel (capacity 1)
    result,      \* what interactiveMode returned ("pending" before it returns)
    stdout,      \* observer: the payload last handed to colorPrint
    printCount,  \* observer: the number of colorPrint calls
    history,     \* observer: the writes and receivePacket returns on conn, in order, each with the type of the request written or awaited
    reply,       \* observer: the server's reply to the last request written
    reads,       \* observer: what each conn.Read of the receivePacket call in progress (or the last one) returned, in order
    backlog,     \* observer: the bytes that were still unread when the last request was written
    parsed,      \* observer: what the last parsePacket call returned
    linesRead,   \* observer: the lines the command goroutine has read
    sigFirst,    \* observer: the interrupt fired before any line was read
    codecPc,     \* codec specification: position
    cpkt,        \* codec specification: the packet given to serialize
    cdata,       \* codec specification: serialize's output
    cparsed      \* codec specification: parsePacket's output

sessionVars ==
    << requestID, mainPc, exit, loginErr, conn, wire, peerClosed, received,
       response, sigchan, sigPc, cmdPc, input, cmdErr, errchan, result, stdout,
       printCount, history, reply, reads, backlog, parsed, linesRead,
       sigFirst >>

codecVars == << codecPc, cpkt, cdata, cparsed >>

vars == << sessionVars, codecVars >>

(***************************************************************************)
(* Input sets                                                              *)
(***************************************************************************)
\* int32(rand.Int()) is any int32; these are the ones enumerated.
SessionIDs == {-1, 258}

\* A request id that is neither the session's nor -1.
OtherID(id) == IF id = 7 THEN 8 ELSE 7

Passwords == { << 112, 119 >> }

\* Lines as reader.ReadString('\n') returns them, delimiter included.
Lines == { << 32, 98, 13, 10 >> }

\* The errors of the transport, of stdin, and of the program's own messages.
NetErr == "network error"

StdinErr == "stdin error"

NoResponse == "No response received"

PasswordIncorrect == "Password is incorrect"

LoginFailed == "Login failed"

\* What the server sends back for one request.  A "packet" is one well-formed
\* frame with a payload of n bytes; "fragmented" is a response in two frames, a
\* full one and one with n bytes; "truncated" is the first 8 bytes of a frame;
\* "silent" sends nothing and "close" closes the connection without data.
Reply(kind, id, type, n) == [kind |-> kind, id |-> id, type |-> type, n |-> n]

Text(n) == Rep(97, n)

ReplyBytes(r) ==
    CASE r.kind = "packet" -> serialize(rconPacket(r.id, r.type, Text(r.n)))
      [] r.kind = "fragmented" ->
            serialize(rconPacket(r.id, r.type, Text(MAXPAYLOAD)))
              \o serialize(rconPacket(r.id, r.type, Text(r.n)))
      [] r.kind = "truncated" ->
            SubSeq(serialize(rconPacket(r.id, r.type, Text(r.n))), 1, 8)
      [] OTHER -> << >>

LoginReplies(id) ==
    { Reply("packet", i, t, 0) :
        i \in {id, -1, OtherID(id)}, t \in {RESPONSETYPE, COMMANDTYPE, LOGINTYPE} }
      \cup { Reply("truncated", id, COMMANDTYPE, 0),
             Reply("silent", 0, 0, 0), Reply("close", 0, 0, 0) }

CommandReplies(id) ==
    { Reply("packet", i, t, n) :
        i \in {id, -1}, t \in {RESPONSETYPE, COMMANDTYPE}, n \in {1} }
      \cup { Reply("packet", id, RESPONSETYPE, 2),
             Reply("packet", id, RESPONSETYPE, MAXPAYLOAD),
             Reply("fragmented", id, RESPONSETYPE, 1),
             Reply("truncated", id, RESPONSETYPE, 1),
             Reply("silent", 0, 0, 0), Reply("close", 0, 0, 0) }

\* The byte counts one conn.Read may return when avail bytes are on their way:
\* TCP delivers any non-empty prefix that fits the buffer.  These are the
\* prefixes enumerated.
ReadSizes(avail) ==
    { k \in {1, HEADERSIZE, avail, MAXRECVSIZE} :
        1 <= k /\ k <= avail /\ k <= MAXRECVSIZE }

\* The packets of the codec specification.
CodecIDs == {MinInt32, -1, 0, 1, 258, 16909060, MaxInt32}

RECURSIVE SeqsUpTo(_, _)
SeqsUpTo(S, n) ==
    IF n = 0 THEN { << >> }
    ELSE LET shorter == SeqsUpTo(S, n - 1)
         IN  shorter \cup { Append(s, b) : s \in shorter, b \in S }

CodecPayloads == SeqsUpTo({0, 97, 255}, MaxPayloadLen) \cup { Text(MAXPAYLOAD) }

CodecPackets ==
    { rconPacket(i, t, p) :
        i \in CodecIDs, t \in {RESPONSETYPE, COMMANDTYPE, LOGINTYPE},
        p \in CodecPayloads }

(***************************************************************************)
(* Transport                                                               *)
(***************************************************************************)
\* What one conn.Read(buf) on a *net.TCPConn may return, as [n, err]: data
\* and no error, end of stream once the peer has closed and everything was
\* read, or an error (the deadline passed, the connection was reset, or this
\* end was closed) with no data.
ReadOutcomes ==
    IF conn = "closed" THEN { [n |-> 0, err |-> NetErr] }
    ELSE { [n |-> k, err |-> "nil"] : k \in ReadSizes(Len(wire)) }
           \cup (IF peerClosed /\ wire = << >>
                 THEN { [n |-> 0, err |-> "EOF"] }
                 ELSE { [n |-> 0, err |-> NetErr] })

\* The outcomes of conn.Write(packet): TRUE when every byte was written.  A
\* write on a closed connection fails; any other may fail (deadline, reset).
WriteOutcomes == IF conn = "closed" THEN { FALSE } ELSE { TRUE, FALSE }

\* Mutant of ReceiveStep: the loop test is n <= len(buf), so that a read that
\* fills the buffer ends the call too.
ReceiveStepBreakOnFull(acc, chunk, err) ==
    IF err = "EOF" \/ Len(chunk) = 0
    THEN [done |-> TRUE, data |-> acc, err |-> "nil"]
    ELSE IF err # "nil"
    THEN [done |-> TRUE, data |-> << >>, err |-> err]
    ELSE [done |-> TRUE, data |-> acc \o chunk, err |-> "nil"]

\* Mutant of ReceiveStep: a chunk replaces the accumulator instead of being
\* appended to it.
ReceiveStepOverwrite(acc, chunk, err) ==
    IF err = "EOF" \/ Len(chunk) = 0
    THEN [done |-> TRUE, data |-> acc, err |-> "nil"]
    ELSE IF err # "nil"
    THEN [done |-> TRUE, data |-> << >>, err |-> err]
    ELSE IF Len(chunk) < MAXRECVSIZE
    THEN [done |-> TRUE, data |-> chunk, err |-> "nil"]
    ELSE [done |-> FALSE, data |-> chunk, err |-> "nil"]

\* One pass of receivePacket's loop body, given the accumulator and what
\* conn.Read returned: [done, data, err], done when the function returns.
ReceiveStep(acc, chunk, err) ==
    IF err = "EOF" \/ Len(chunk) = 0
    THEN [done |-> TRUE, data |-> acc, err |-> "nil"]
    ELSE IF err # "nil"
    THEN [done |-> TRUE, data |-> << >>, err |-> err]
    ELSE IF Len(chunk) < MAXRECVSIZE
    THEN [done |-> TRUE, data |-> acc \o chunk, err |-> "nil"]
    ELSE [done |-> FALSE, data |-> acc \o chunk, err |-> "nil"]

\* The capacities the slice receivePacket returns may have: a buffer that
\* was never written has none; otherwise bytes.Buffer's growth decides.
Caps(data) ==
    IF data = << >> THEN { 0 } ELSE Len(data) .. (Len(data) + MaxSlack)

\* The observer's record of one event on the connection: a packet of this
\* type was written, or the receivePacket call for it returned.
Event(op, type) == [op |-> op, type |-> type]

\* The server receives a request and answers it with reply r.
ServerAnswers(r) ==
    /\ wire' = wire \o ReplyBytes(r)
    /\ peerClosed' = (peerClosed \/ r.kind = "close")
    /\ reply' = r

\* Mutant of LoginResult: the reply's type is not looked at.
LoginResultAnyType(p, id) ==
    IF p.requestID = id THEN "nil"
    ELSE IF p.requestID = -1 THEN PasswordIncorrect
    ELSE LoginFailed

\* Mutant of LoginResult: a reply that is neither case falls through to nil.
LoginResultFallThrough(p, id) ==
    IF p.requestID = id /\ p.packetType = COMMANDTYPE THEN "nil"
    ELSE IF p.requestID = -1 THEN PasswordIncorrect
    ELSE "nil"

\* The decision at the end of login, on the parsed reply.
LoginResult(p, id) ==
    IF p.requestID = id /\ p.packetType = COMMANDTYPE THEN "nil"
    ELSE IF p.requestID = -1 THEN PasswordIncorrect
    ELSE LoginFailed

(***************************************************************************)
(* Initial state                                                           *)
(***************************************************************************)
SessionIdle ==
    /\ exit = "running"
    /\ loginErr = "pending"
    /\ conn = "none"
    /\ wire = << >>
    /\ peerClosed = FALSE
    /\ received = << >>
    /\ response = [data |-> << >>, err |-> "nil"]
    /\ sigchan = FALSE
    /\ sigPc = "off"
    /\ cmdPc = "off"
    /\ input = << >>
    /\ cmdErr = "nil"
    /\ errchan = << >>
    /\ result = "pending"
    /\ stdout = << >>
    /\ printCount = 0
    /\ history = << >>
    /\ reply = Reply("silent", 0, 0, 0)
    /\ reads = << >>
    /\ backlog = << >>
    /\ parsed = rconPacket(0, 0, << >>)
    /\ linesRead = 0
    /\ sigFirst = FALSE

CodecIdle ==
    /\ codecPc = "off"
    /\ cpkt = rconPacket(0, 0, << >>)
    /\ cdata = << >>
    /\ cparsed = rconPacket(0, 0, << >>)

Init ==
    /\ requestID \in SessionIDs
    /\ mainPc = "connect"
    /\ SessionIdle
    /\ CodecIdle

(***************************************************************************)
(* main, up to the end of login                                            *)
(***************************************************************************)
\* connection, err := connect(host, port); a failure ends in ferrorln.
Connect ==
    /\ exit = "running" /\ mainPc = "connect"
    /\ \/ /\ conn' = "open"
          /\ mainPc' = "password"
          /\ exit' = exit
       \/ /\ exit' = "error"
          /\ mainPc' = "done"
          /\ conn' = conn
    /\ UNCHANGED << requestID, loginErr, wire, peerClosed, received, response,
                    sigchan, sigPc, cmdPc, input, cmdErr, errchan, result,
                    stdout, printCount, history, reply, reads, backlog, parsed, linesRead,
                    sigFirst, codecVars >>

\* gopass.GetPasswdPrompt; a failure ends in ferrorln.
Password ==
    /\ exit = "running" /\ mainPc = "password"
    /\ \/ /\ mainPc' = "login_send"
          /\ exit' = exit
       \/ /\ exit' = "error"
          /\ mainPc' = "done"
    /\ UNCHANGED << requestID, loginErr, conn, wire, peerClosed, received,
                    response, sigchan, sigPc, cmdPc, input, cmdErr, errchan,
                    result, stdout, printCount, history, reply, reads, backlog, parsed,
                    linesRead, sigFirst, codecVars >>

\* login: makeLoginPacket and sendPacket.  A failed write makes login return
\* the error; after a good one the server answers and receivePacket starts.
LoginSend ==
    /\ exit = "running" /\ mainPc = "login_send"
    /\ \E pw \in Passwords, ok \in WriteOutcomes :
         LET packet == makeLoginPacket(pw, requestID)
         IN  IF ok
             THEN /\ history' = Append(history, Event("write", HeaderField(packet, 3)))
                  /\ \E r \in LoginReplies(requestID) : ServerAnswers(r)
                  /\ mainPc' = "login_recv"
                  /\ loginErr' = loginErr
             ELSE /\ loginErr' = NetErr
                  /\ mainPc' = "login_done"
                  /\ UNCHANGED << history, wire, peerClosed, reply >>
    /\ received' = << >>
    /\ reads' = << >>
    /\ backlog' = wire
    /\ UNCHANGED << requestID, exit, conn, response, sigchan, sigPc, cmdPc,
                    input, cmdErr, errchan, result, stdout, printCount, parsed, linesRead,
                    sigFirst, codecVars >>

\* login: one conn.Read of receivePacket's loop, and, when receivePacket
\* returns, login's check of its error.
LoginRecv ==
    /\ exit = "running" /\ mainPc = "login_recv"
    /\ \E o \in ReadOutcomes :
         LET st == ReceiveStep(received, SubSeq(wire, 1, o.n), o.err)
         IN  /\ wire' = SubSeq(wire, o.n + 1, Len(wire))
             /\ received' = st.data
             /\ reads' = Append(reads, [data |-> SubSeq(wire, 1, o.n), err |-> o.err])
             /\ IF ~st.done
                THEN UNCHANGED << mainPc, loginErr, response, history >>
                ELSE /\ response' = [data |-> st.data, err |-> st.err]
                     /\ history' = Append(history, Event("recv", LOGINTYPE))
                     /\ IF st.err # "nil"
                        THEN loginErr' = st.err /\ mainPc' = "login_done"
                        ELSE loginErr' = loginErr /\ mainPc' = "login_check"
    /\ UNCHANGED << requestID, exit, conn, peerClosed, sigchan, sigPc, cmdPc,
                    input, cmdErr, errchan, result, stdout, printCount, reply,
                    backlog, parsed,
                    linesRead, sigFirst, codecVars >>

\* login: parsePacket(response) and the comparison.  A slice out of range
\* panics, which ends the process.
LoginCheck ==
    /\ exit = "running" /\ mainPc = "login_check"
    /\ \E capacity \in Caps(response.data) :
         IF SliceInRange(response.data, capacity)
         THEN /\ parsed' = parsePacketCap(response.data, capacity)
              /\ loginErr' = LoginResult(parsed', requestID)
              /\ mainPc' = "login_done"
              /\ exit' = exit
         ELSE /\ exit' = "panic"
              /\ mainPc' = "done"
              /\ UNCHANGED << parsed, loginErr >>
    /\ UNCHANGED << requestID, conn, wire, peerClosed, received, response,
                    sigchan, sigPc, cmdPc, input, cmdErr, errchan, result,
                    stdout, printCount, history, reply, reads, backlog, linesRead, sigFirst,
                    codecVars >>

\* Mutant of AfterLogin: main reports login's error without exiting and
\* goes on to interactiveMode.
AfterLoginNoExit ==
    /\ exit = "running" /\ mainPc = "login_done"
    /\ mainPc' = "interactive"
    /\ sigPc' = "wait"
    /\ cmdPc' = "prompt"
    /\ exit' = exit
    /\ UNCHANGED << requestID, loginErr, conn, wire, peerClosed, received,
                    response, sigchan, input, cmdErr, errchan, result, stdout, printCount,
                    history, reply, reads, backlog, parsed, linesRead, sigFirst,
                    codecVars >>

\* main after login: ferrorln on an error; otherwise interactiveMode starts,
\* registers for signals and starts its two goroutines.
AfterLogin ==
    /\ exit = "running" /\ mainPc = "login_done"
    /\ IF loginErr # "nil"
       THEN /\ exit' = "error"
            /\ mainPc' = "done"
            /\ UNCHANGED << sigPc, cmdPc >>
       ELSE /\ mainPc' = "interactive"
            /\ sigPc' = "wait"
            /\ cmdPc' = "prompt"
            /\ exit' = exit
    /\ UNCHANGED << requestID, loginErr, conn, wire, peerClosed, received,
                    response, sigchan, input, cmdErr, errchan, result, stdout, printCount,
                    history, reply, reads, backlog, parsed, linesRead, sigFirst,
                    codecVars >>

(***************************************************************************)
(* interactiveMode: the signal goroutine                                   *)
(***************************************************************************)
\* The operating system delivers the interrupt into sigchan (once).
Interrupt ==
    /\ exit = "running" /\ sigPc = "wait" /\ ~sigchan
    /\ sigchan' = TRUE
    /\ sigFirst' = (linesRead = 0)
    /\ UNCHANGED << requestID, mainPc, exit, loginErr, conn, wire, peerClosed,
                    received, response, sigPc, cmdPc, input, cmdErr, errchan,
                    result, stdout, printCount, history, reply, reads, backlog, parsed,
                    linesRead, codecVars >>

\* <-sigchan
SigReceive ==
    /\ exit = "running" /\ sigPc = "wait" /\ sigchan
    /\ sigchan' = FALSE
    /\ sigPc' = "deliver"
    /\ UNCHANGED << requestID, mainPc, exit, loginErr, conn, wire, peerClosed,
                    received, response, cmdPc, input, cmdErr, errchan, result,
                    stdout, printCount, history, reply, reads, backlog, parsed, linesRead,
                    sigFirst, codecVars >>

\* errchan <- nil: the value goes into the channel's one slot, or, while the
\* slot is taken, the goroutine parks in the send until a receive takes it on.
SigDeliver ==
    /\ exit = "running" /\ sigPc = "deliver"
    /\ IF Len(errchan) < 1
       THEN errchan' = Append(errchan, "nil") /\ sigPc' = "done"
       ELSE errchan' = errchan /\ sigPc' = "blocked"
    /\ UNCHANGED << requestID, mainPc, exit, loginErr, conn, wire, peerClosed,
                    received, response, sigchan, cmdPc, input, cmdErr, result,
                    stdout, printCount, history, reply, reads, backlog, parsed, linesRead,
                    sigFirst, codecVars >>

(***************************************************************************)
(* interactiveMode: the command goroutine                                  *)
(***************************************************************************)
\* reader.ReadString('\n'): a line, end of input, or an error.
CmdReadLine ==
    /\ exit = "running" /\ cmdPc = "prompt"
    /\ \/ /\ linesRead < MaxLines
          /\ \E line \in Lines : input' = line
          /\ linesRead' = linesRead + 1
          /\ cmdPc' = "send"
          /\ cmdErr' = cmdErr
       \/ /\ cmdErr' = "nil"
          /\ cmdPc' = "deliver"
          /\ UNCHANGED << input, linesRead >>
       \/ /\ cmdErr' = StdinErr
          /\ cmdPc' = "deliver"
          /\ UNCHANGED << input, linesRead >>
    /\ UNCHANGED << requestID, mainPc, exit, loginErr, conn, wire, peerClosed,
                    received, response, sigchan, sigPc, errchan, result,
                    stdout, printCount, history, reply, reads, backlog, parsed, sigFirst,
                    codecVars >>

\* Mutant of CmdSend: after a good write the loop goes on to the next line
\* without calling receivePacket.
CmdSendNoWait ==
    /\ exit = "running" /\ cmdPc = "send"
    /\ \E ok \in WriteOutcomes :
         LET packet == makeCommandPacket(TrimSpace(input), requestID)
         IN  IF ok
             THEN /\ history' = Append(history, Event("write", HeaderField(packet, 3)))
                  /\ \E r \in (IF peerClosed THEN { Reply("silent", 0, 0, 0) }
                               ELSE CommandReplies(requestID)) : ServerAnswers(r)
                  /\ cmdPc' = "prompt"
                  /\ cmdErr' = cmdErr
             ELSE /\ cmdErr' = NetErr
                  /\ cmdPc' = "deliver"
                  /\ UNCHANGED << history, wire, peerClosed, reply >>
    /\ received' = << >>
    /\ reads' = << >>
    /\ backlog' = wire
    /\ UNCHANGED << requestID, mainPc, exit, loginErr, conn, response, sigchan,
                    sigPc, input, errchan, result, stdout, printCount, parsed,
                    linesRead, sigFirst, codecVars >>

\* makeCommandPacket(strings.TrimSpace(input), requestID) and sendPacket.
CmdSend ==
    /\ exit = "running" /\ cmdPc = "send"
    /\ \E ok \in WriteOutcomes :
         LET packet == makeCommandPacket(TrimSpace(input), requestID)
         IN  IF ok
             THEN /\ history' = Append(history, Event("write", HeaderField(packet, 3)))
                  /\ \E r \in (IF peerClosed THEN { Reply("silent", 0, 0, 0) }
                               ELSE CommandReplies(requestID)) : ServerAnswers(r)
                  /\ cmdPc' = "recv"
                  /\ cmdErr' = cmdErr
             ELSE /\ cmdErr' = NetErr
                  /\ cmdPc' = "deliver"
                  /\ UNCHANGED << history, wire, peerClosed, reply >>
    /\ received' = << >>
    /\ reads' = << >>
    /\ backlog' = wire
    /\ UNCHANGED << requestID, mainPc, exit, loginErr, conn, response, sigchan,
                    sigPc, input, errchan, result, stdout, printCount, parsed, linesRead,
                    sigFirst, codecVars >>

\* One conn.Read of receivePacket's loop; when receivePacket returns, its
\* two results are kept (the caller does not look at the error).
CmdRecv ==
    /\ exit = "running" /\ cmdPc = "recv"
    /\ \E o \in ReadOutcomes :
         LET st == ReceiveStep(received, SubSeq(wire, 1, o.n), o.err)
         IN  /\ wire' = SubSeq(wire, o.n + 1, Len(wire))
             /\ received' = st.data
             /\ reads' = Append(reads, [data |-> SubSeq(wire, 1, o.n), err |-> o.err])
             /\ IF ~st.done
                THEN UNCHANGED << cmdPc, response, history >>
                ELSE /\ response' = [data |-> st.data, err |-> st.err]
                     /\ history' = Append(history, Event("recv", COMMANDTYPE))
                     /\ cmdPc' = "handle"
    /\ UNCHANGED << requestID, mainPc, exit, loginErr, conn, peerClosed,
                    sigchan, sigPc, input, cmdErr, errchan, result, stdout,
                    printCount, reply, backlog, parsed, linesRead, sigFirst,
                    codecVars >>

\* Mutant of CmdHandle: the length check is missing, so that an empty
\* buffer goes to parsePacket.
CmdHandleNoLengthCheck ==
    /\ exit = "running" /\ cmdPc = "handle"
    /\ \E capacity \in Caps(response.data) :
         IF SliceInRange(response.data, capacity)
         THEN /\ parsed' = parsePacketCap(response.data, capacity)
              /\ stdout' = parsed'.payload
              /\ printCount' = printCount + 1
              /\ cmdPc' = "prompt"
              /\ UNCHANGED << cmdErr, exit >>
         ELSE /\ exit' = "panic"
              /\ UNCHANGED << parsed, stdout, printCount, cmdPc, cmdErr >>
    /\ UNCHANGED << requestID, mainPc, loginErr, conn, wire, peerClosed,
                    received, response, sigchan, sigPc, input, errchan, result,
                    history, reply, reads, backlog, linesRead, sigFirst, codecVars >>

\* Mutant of CmdHandle: a reply whose requestID is not the session's ends
\* the loop with "Login failed" instead of being printed.
CmdHandleValidating ==
    /\ exit = "running" /\ cmdPc = "handle"
    /\ IF Len(response.data) = 0
       THEN /\ cmdErr' = NoResponse
            /\ cmdPc' = "deliver"
            /\ UNCHANGED << parsed, stdout, printCount, exit >>
       ELSE \E capacity \in Caps(response.data) :
              IF SliceInRange(response.data, capacity)
              THEN /\ parsed' = parsePacketCap(response.data, capacity)
                   /\ IF parsed'.requestID = requestID
                      THEN /\ stdout' = parsed'.payload
                           /\ printCount' = printCount + 1
                           /\ cmdPc' = "prompt"
                           /\ UNCHANGED << cmdErr, exit >>
                      ELSE /\ cmdErr' = LoginFailed
                           /\ cmdPc' = "deliver"
                           /\ UNCHANGED << stdout, printCount, exit >>
              ELSE /\ exit' = "panic"
                   /\ UNCHANGED << parsed, stdout, printCount, cmdPc, cmdErr >>
    /\ UNCHANGED << requestID, mainPc, loginErr, conn, wire, peerClosed,
                    received, response, sigchan, sigPc, input, errchan, result,
                    history, reply, reads, backlog, linesRead, sigFirst, codecVars >>

\* The length check, parsePacket(responsePacket) and colorPrint.  A slice
\* out of range panics, which ends the process.
CmdHandle ==
    /\ exit = "running" /\ cmdPc = "handle"
    /\ IF Len(response.data) = 0
       THEN /\ cmdErr' = NoResponse
            /\ cmdPc' = "deliver"
            /\ UNCHANGED << parsed, stdout, printCount, exit >>
       ELSE \E capacity \in Caps(response.data) :
              IF SliceInRange(response.data, capacity)
              THEN /\ parsed' = parsePacketCap(response.data, capacity)
                   /\ stdout' = parsed'.payload
                   /\ printCount' = printCount + 1
                   /\ cmdPc' = "prompt"
                   /\ UNCHANGED << cmdErr, exit >>
              ELSE /\ exit' = "panic"
                   /\ UNCHANGED << parsed, stdout, printCount, cmdPc, cmdErr >>
    /\ UNCHANGED << requestID, mainPc, loginErr, conn, wire, peerClosed,
                    received, response, sigchan, sigPc, input, errchan, result,
                    history, reply, reads, backlog, linesRead, sigFirst, codecVars >>

\* Mutant of CmdDeliver: the end-of-input branch sends its err (io.EOF)
\* instead of nil.
CmdDeliverEOFValue ==
    /\ exit = "running" /\ cmdPc = "deliver"
    /\ IF Len(errchan) < 1
       THEN /\ errchan' = Append(errchan, IF cmdErr = "nil" THEN "EOF" ELSE cmdErr)
            /\ cmdPc' = "done"
       ELSE errchan' = errchan /\ cmdPc' = "blocked"
    /\ UNCHANGED << requestID, mainPc, exit, loginErr, conn, wire, peerClosed,
                    received, response, sigchan, sigPc, input, cmdErr, result,
                    stdout, printCount, history, reply, reads, backlog, parsed, linesRead,
                    sigFirst, codecVars >>

\* errchan <- err (or nil): the value goes into the channel's one slot, or,
\* while the slot is taken, the goroutine parks in the send until a receive
\* takes it on.
CmdDeliver ==
    /\ exit = "running" /\ cmdPc = "deliver"
    /\ IF Len(errchan) < 1
       THEN errchan' = Append(errchan, cmdErr) /\ cmdPc' = "done"
       ELSE errchan' = errchan /\ cmdPc' = "blocked"
    /\ UNCHANGED << requestID, mainPc, exit, loginErr, conn, wire, peerClosed,
                    received, response, sigchan, sigPc, input, cmdErr, result,
                    stdout, printCount, history, reply, reads, backlog, parsed, linesRead,
                    sigFirst, codecVars >>

(***************************************************************************)
(* interactiveMode's return and the end of main                            *)
(***************************************************************************)
\* return <-errchan: the receive takes the value in the slot and, when a
\* goroutine is parked in a send, puts that goroutine's value into the slot,
\* which completes its send.
DriverReturn ==
    /\ exit = "running" /\ mainPc = "interactive" /\ errchan # << >>
    /\ result' = Head(errchan)
    /\ IF sigPc = "blocked"
       THEN errchan' = Append(Tail(errchan), "nil")
              /\ sigPc' = "done" /\ cmdPc' = cmdPc
       ELSE IF cmdPc = "blocked"
       THEN errchan' = Append(Tail(errchan), cmdErr)
              /\ cmdPc' = "done" /\ sigPc' = sigPc
       ELSE errchan' = Tail(errchan) /\ UNCHANGED << sigPc, cmdPc >>
    /\ mainPc' = "close"
    /\ UNCHANGED << requestID, exit, loginErr, conn, wire, peerClosed,
                    received, response, sigchan, input, cmdErr,
                    stdout, printCount, history, reply, reads, backlog, parsed, linesRead,
                    sigFirst, codecVars >>

\* main reports the outcome and calls connection.Close().
Close ==
    /\ exit = "running" /\ mainPc = "close"
    /\ conn' = "closed"
    /\ mainPc' = "return"
    /\ UNCHANGED << requestID, exit, loginErr, wire, peerClosed, received,
                    response, sigchan, sigPc, cmdPc, input, cmdErr, errchan,
                    result, stdout, printCount, history, reply, reads, backlog, parsed,
                    linesRead, sigFirst, codecVars >>

\* main returns: the process and its goroutines end.
MainReturn ==
    /\ exit = "running" /\ mainPc = "return"
    /\ exit' = "ok"
    /\ mainPc' = "done"
    /\ UNCHANGED << requestID, loginErr, conn, wire, peerClosed, received,
                    response, sigchan, sigPc, cmdPc, input, cmdErr, errchan,
                    result, stdout, printCount, history, reply, reads, backlog, parsed,
                    linesRead, sigFirst, codecVars >>

Next ==
    \/ Connect
    \/ Password
    \/ LoginSend
    \/ LoginRecv
    \/ LoginCheck
    \/ AfterLogin
    \/ Interrupt
    \/ SigReceive
    \/ SigDeliver
    \/ CmdReadLine
    \/ CmdSend
    \/ CmdRecv
    \/ CmdHandle
    \/ CmdDeliver
    \/ DriverReturn
    \/ Close
    \/ MainReturn

Spec == Init /\ [][Next]_vars

(***************************************************************************)
(* The codec on its own: a packet is serialized, and the bytes are parsed   *)
(***************************************************************************)
CodecInit ==
    /\ requestID = 0
    /\ mainPc = "done"
    /\ SessionIdle
    /\ codecPc = "packet"
    /\ cpkt \in CodecPackets
    /\ cdata = << >>
    /\ cparsed = rconPacket(0, 0, << >>)

CodecSerialize ==
    /\ codecPc = "packet"
    /\ cdata' = serialize(cpkt)
    /\ codecPc' = "bytes"
    /\ UNCHANGED << sessionVars, cpkt, cparsed >>

CodecParse ==
    /\ codecPc = "bytes"
    /\ \E capacity \in Caps(cdata) :
         /\ SliceInRange(cdata, capacity)
         /\ cparsed' = parsePacketCap(cdata, capacity)
    /\ codecPc' = "parsed"
    /\ UNCHANGED << sessionVars, cpkt, cdata >>

CodecNext == CodecSerialize \/ CodecParse

CodecSpec == CodecInit /\ [][CodecNext]_vars

(***************************************************************************)
(* receivePacket on its own, for every result a Read may report            *)
(***************************************************************************)
\* The most reads one receivePacket call makes here.
MaxReads == 3

\* What one Read(buf) may report under the io.Reader contract: 0 to
\* len(buf) bytes, together with nil, io.EOF or another error.  (A
\* *net.TCPConn reports an error only with n = 0; the session specification
\* keeps to that.)
ReadResults ==
    { [data |-> Rep(b, n), err |-> e] :
        b \in {97, 98, 99}, n \in {0, 1, 2, MAXRECVSIZE},
        e \in {"nil", "EOF", NetErr} }

\* A receivePacket call starts: an empty accumulator, no read made.
ReceiverInit ==
    /\ requestID = 0
    /\ mainPc = "receive"
    /\ exit = "running"
    /\ loginErr = "pending"
    /\ conn = "open"
    /\ wire = << >>
    /\ peerClosed = FALSE
    /\ received = << >>
    /\ response = [data |-> << >>, err |-> "nil"]
    /\ sigchan = FALSE
    /\ sigPc = "off"
    /\ cmdPc = "off"
    /\ input = << >>
    /\ cmdErr = "nil"
    /\ errchan = << >>
    /\ result = "pending"
    /\ stdout = << >>
    /\ printCount = 0
    /\ history = << >>
    /\ reply = Reply("silent", 0, 0, 0)
    /\ reads = << >>
    /\ backlog = << >>
    /\ parsed = rconPacket(0, 0, << >>)
    /\ linesRead = 0
    /\ sigFirst = FALSE
    /\ CodecIdle

\* One pass of receivePacket's loop; the call's two results are kept in
\* response when it returns.
ReceiverRead ==
    /\ mainPc = "receive" /\ Len(reads) < MaxReads
    /\ \E r \in ReadResults :
         LET st == ReceiveStep(received, r.data, r.err)
         IN  /\ received' = st.data
             /\ reads' = Append(reads, r)
             /\ IF st.done
                THEN /\ response' = [data |-> st.data, err |-> st.err]
                     /\ mainPc' = "returned"
                ELSE UNCHANGED << response, mainPc >>
    /\ UNCHANGED << requestID, exit, loginErr, conn, wire, peerClosed, sigchan,
                    sigPc, cmdPc, input, cmdErr, errchan, result, stdout,
                    printCount, history, reply, backlog, parsed, linesRead,
                    sigFirst, codecVars >>

ReceiverNext == ReceiverRead

ReceiverSpec == ReceiverInit /\ [][ReceiverNext]_vars

(***************************************************************************)
(* Properties                                                              *)
(***************************************************************************)
\* login has returned to main, which has not acted on the result yet.
LoginReturned == mainPc = "login_done"

\* login wrote its packet, receivePacket returned without error and
\* parsePacket returned a packet (kept in parsed).
LoginReplyParsed ==
    /\ LoginReturned
    /\ history = << Event("write", LOGINTYPE), Event("recv", LOGINTYPE) >>
    /\ response.err = "nil"

\* interactiveMode has been entered: the session counts as authenticated.
Authenticated == mainPc \in {"interactive", "close", "return"} \/ cmdPc # "off"

\* C1: round trip.  For every packet of the codec specification (request
\* ids over the int32 range, the three packet types, payloads of 0 to
\* MaxPayloadLen bytes and one of 4096), parsing the bytes serialize produced
\* gives back the same requestID, packetType and payload.
RoundTrip ==
    codecPc = "parsed" =>
        /\ cparsed.requestID = cpkt.requestID
        /\ cparsed.packetType = cpkt.packetType
        /\ cparsed.payload = cpkt.payload

\* A negative request id and a 4096-byte payload have made the round trip.
RoundTripWitness ==
    /\ codecPc = "parsed"
    /\ cpkt.requestID = MinInt32
    /\ cpkt.packetType = LOGINTYPE
    /\ Len(cpkt.payload) = MAXPAYLOAD
    /\ cparsed = cpkt

\* C2: the wire layout.  serialize's output is 14 + len(payload) bytes: the
\* little-endian size 8 + len(payload) + 2, the little-endian requestID, the
\* little-endian packetType, the payload unchanged, and two zero bytes.
SerializeLayout ==
    codecPc # "packet" =>
        LET n == Len(cpkt.payload)
        IN  /\ Len(cdata) = 14 + n
            /\ \A i \in 1..Len(cdata) : cdata[i] \in Byte
            /\ cdata[1] + 256 * cdata[2] + 65536 * cdata[3]
                 + 16777216 * cdata[4] = 8 + n + 2
            /\ cdata[5] + 256 * cdata[6] + 65536 * cdata[7]
                 + 16777216 * (IF cdata[8] >= 128 THEN cdata[8] - 256 ELSE cdata[8])
                 = cpkt.requestID
            /\ cdata[9] + 256 * cdata[10] + 65536 * cdata[11]
                 + 16777216 * cdata[12] = cpkt.packetType
            /\ SubSeq(cdata, 13, 12 + n) = cpkt.payload
            /\ cdata[13 + n] = 0
            /\ cdata[14 + n] = 0

\* A packet whose request id has four different bytes has been serialized.
SerializeLayoutWitness ==
    /\ codecPc = "bytes"
    /\ cpkt.requestID = 16909060
    /\ Len(cpkt.payload) = MaxPayloadLen
    /\ SubSeq(cdata, 1, 12) = << 10 + MaxPayloadLen, 0, 0, 0, 4, 3, 2, 1,
                                 cpkt.packetType, 0, 0, 0 >>

\* C3: authentication succeeds exactly on a matching reply.  When login
\* returns, it returns nil if and only if the Login packet was written, a
\* reply was received and parsed, and the parsed reply has the requestID that
\* was sent and packetType Command; the session is authenticated only after
\* login returned nil.
AuthSuccess ==
    /\ LoginReturned =>
         (loginErr = "nil" <=>
            /\ LoginReplyParsed
            /\ parsed.requestID = requestID
            /\ parsed.packetType = COMMANDTYPE)
    /\ Authenticated => loginErr = "nil"

\* login returned nil on a reply that echoes the request id with type Command.
AuthSuccessWitness ==
    /\ LoginReplyParsed
    /\ loginErr = "nil"
    /\ parsed.requestID = requestID
    /\ parsed.packetType = COMMANDTYPE
    /\ reply = Reply("packet", requestID, COMMANDTYPE, 0)

\* C4: rejection.  Whenever the parsed login reply carries requestID -1,
\* whatever the session's own request id and the reply's type, login returns
\* "Password is incorrect" (so that main exits and the session is never
\* authenticated).
AuthFailure ==
    (LoginReplyParsed /\ parsed.requestID = -1) => loginErr = PasswordIncorrect

\* C5: protocol violation.  Every parsed login reply that is neither the
\* success case (the sent requestID with type Command) nor the rejection
\* case (requestID -1) makes login return "Login failed".
LoginProtocolViolation ==
    ( /\ LoginReplyParsed
      /\ ~(parsed.requestID = requestID /\ parsed.packetType = COMMANDTYPE)
      /\ parsed.requestID # -1 )
        => loginErr = LoginFailed

\* login returned "Login failed" on a reply that echoes the request id with
\* a type other than Command.
LoginProtocolViolationWitness ==
    /\ LoginReplyParsed
    /\ parsed.requestID = requestID
    /\ parsed.requestID # -1
    /\ parsed.packetType = RESPONSETYPE
    /\ loginErr = LoginFailed

\* The number of Command packets written to the connection so far.
CommandsWritten ==
    Cardinality({ i \in DOMAIN history : history[i] = Event("write", COMMANDTYPE) })

\* A receivePacket call is in progress.
Receiving == mainPc = "login_recv" \/ cmdPc = "recv"

\* The bytes of a sequence of read results, in order.
RECURSIVE Delivered(_)
Delivered(rs) ==
    IF rs = << >> THEN << >> ELSE Head(rs).data \o Delivered(Tail(rs))

\* A read that returned data and filled the whole buffer.
FullRead(r) == r.err = "nil" /\ Len(r.data) = MAXRECVSIZE

\* A read that returned data and did not fill the buffer.
ShortRead(r) == r.err = "nil" /\ 0 < Len(r.data) /\ Len(r.data) < MAXRECVSIZE

\* The last command exchange has printed its reply and nothing followed.
ExchangeDone ==
    /\ cmdPc = "prompt"
    /\ history # << >>
    /\ history[Len(history)] = Event("recv", COMMANDTYPE)

\* C6: turn-taking.  On the connection, writes and returns of receivePacket
\* alternate, starting with a write, and each return is the one for the
\* request written just before it; a request is outstanding exactly while a
\* receivePacket call is in progress, so at most one is; the Login packet is
\* written at most once, first, and one Command packet is written per line
\* read (none for the line whose write is still to come or has failed).
TurnTaking ==
    /\ \A i \in DOMAIN history :
         /\ history[i].op = (IF i % 2 = 1 THEN "write" ELSE "recv")
         /\ i % 2 = 0 => history[i].type = history[i - 1].type
         /\ history[i].type = (IF i <= 2 THEN LOGINTYPE ELSE COMMANDTYPE)
    /\ (Len(history) % 2 = 1) <=> Receiving
    /\ CommandsWritten <= linesRead
    /\ linesRead <= CommandsWritten + 1
    /\ cmdPc \in {"recv", "handle", "prompt"} => CommandsWritten = linesRead

\* Login and two commands have each been written and answered in turn.
TurnTakingWitness ==
    /\ Len(history) = 6
    /\ CommandsWritten = 2
    /\ cmdPc = "prompt"

\* C7, as claimed: every receivePacket call of a command exchange that
\* returns data returns exactly the server's reply to that command, however
\* the bytes are split across reads, and the exchange prints that reply's
\* payload.  (Stated for sessions whose own request id is not the reserved
\* -1, whose login is the subject of C4.)
ReplyOrdering ==
    requestID # -1 =>
        /\ (cmdPc = "handle" /\ reply.kind = "packet" /\ response.data # << >>)
             => response.data = ReplyBytes(reply)
        /\ (ExchangeDone /\ reply.kind = "packet") => stdout = Text(reply.n)

\* C7, amended: a command exchange's receivePacket call returns exactly the
\* server's reply to its command (one frame, or the two of a long response)
\* when no earlier bytes were unread as the command was written and the
\* reads of the call delivered exactly that reply's bytes; the exchange then
\* parses a one-frame reply to the packet the server sent and prints its
\* payload.
ReplyOrderingWhole ==
    ( /\ cmdPc \in {"handle", "prompt"}
      /\ history # << >>
      /\ history[Len(history)] = Event("recv", COMMANDTYPE)
      /\ reply.kind \in {"packet", "fragmented"}
      /\ backlog = << >>
      /\ Delivered(reads) = ReplyBytes(reply) )
        => /\ response = [data |-> ReplyBytes(reply), err |-> "nil"]
           /\ (cmdPc = "prompt" /\ reply.kind = "packet") =>
                /\ parsed = rconPacket(reply.id, reply.type, Text(reply.n))
                /\ stdout = Text(reply.n)

\* The second command's reply, a full-size packet that arrived in one read
\* followed by a read that timed out, has been returned whole and printed.
ReplyOrderingWholeWitness ==
    /\ ExchangeDone
    /\ CommandsWritten = 2
    /\ reply = Reply("packet", requestID, RESPONSETYPE, MAXPAYLOAD)
    /\ backlog = << >>
    /\ Len(reads) = 2
    /\ Delivered(reads) = ReplyBytes(reply)
    /\ stdout = Text(MAXPAYLOAD)

\* C8: fragmentation reassembly.  After a read that fills the buffer the
\* receivePacket call goes on to read again, holding what it has read; when
\* the reads of a call are one that fills the buffer and then a shorter
\* non-empty one, the call has returned, without error, the two chunks in
\* order, MAXRECVSIZE + m bytes.
FragmentReassembly ==
    /\ (reads # << >> /\ FullRead(reads[Len(reads)]))
         => (Receiving /\ received = Delivered(reads))
    /\ (Len(reads) = 2 /\ FullRead(reads[1]) /\ ShortRead(reads[2]))
         => /\ ~Receiving
            /\ response = [data |-> reads[1].data \o reads[2].data, err |-> "nil"]
            /\ Len(response.data) = MAXRECVSIZE + Len(reads[2].data)

\* A two-frame response has come in as a full read and a read of 15 bytes.
FragmentReassemblyWitness ==
    /\ cmdPc = "handle"
    /\ reply.kind = "fragmented"
    /\ Len(reads) = 2
    /\ Len(reads[1].data) = MAXRECVSIZE
    /\ Len(reads[2].data) = 15
    /\ response.data = ReplyBytes(reply)

\* C9: cancellation race.  When the interrupt fired before the command
\* goroutine had read any line, no Command packet is written in the run and
\* interactiveMode returns nil.  (Stated for sessions whose own request id
\* is not the reserved -1.)
CancellationRace ==
    (requestID # -1 /\ sigFirst) =>
        /\ CommandsWritten = 0
        /\ result \in {"pending", "nil"}

\* C10: no processing after termination.  Once interactiveMode has received
\* the first termination value, no further line is read, no further Command
\* packet is written and nothing more is printed.  (Stated for sessions
\* whose own request id is not the reserved -1.)
NoProcessingAfterTermination ==
    [][ (requestID # -1 /\ result # "pending") =>
          /\ linesRead' = linesRead
          /\ CommandsWritten' = CommandsWritten
          /\ printCount' = printCount ]_vars

\* The interrupt has not fired: nothing is in sigchan and the signal
\* goroutine is still waiting on it.
NoInterrupt == sigPc = "wait" /\ ~sigchan

\* ReadString reported io.EOF: the command goroutine took the branch that
\* sends nil (the only one that leaves the loop with nil).
EndOfInput == cmdPc \in {"deliver", "blocked", "done"} /\ cmdErr = "nil"

\* The last event on the connection is the return of a command exchange's
\* receivePacket call.
CommandReplyReturned ==
    /\ history # << >>
    /\ history[Len(history)] = Event("recv", COMMANDTYPE)

\* C11: graceful end of input.  When the command goroutine has met the end
\* of its input and no interrupt has fired, it has left its loop for good:
\* no receivePacket call is in progress, every line read was written and
\* answered, nothing more happens on the connection, and the only value it
\* puts into errchan is nil, so that interactiveMode returns nil and never
\* an error.
GracefulEndOfInput ==
    /\ []( (EndOfInput /\ NoInterrupt) =>
             /\ ~Receiving
             /\ CommandsWritten = linesRead
             /\ errchan = (IF cmdPc = "done" /\ result = "pending"
                           THEN << "nil" >> ELSE << >>)
             /\ result = (IF mainPc = "interactive" THEN "pending" ELSE "nil") )
    /\ [][ EndOfInput => (history' = history /\ cmdPc' \in {"deliver", "blocked", "done"}) ]_vars

\* After one answered command the input ended, and interactiveMode returned
\* nil with no interrupt.
GracefulEndOfInputWitness ==
    /\ EndOfInput
    /\ NoInterrupt
    /\ cmdPc = "done"
    /\ linesRead = 1
    /\ CommandsWritten = 1
    /\ result = "nil"
    /\ exit = "ok"

\* The last conn.Read of the receivePacket call that has just returned to
\* the command goroutine failed with a network error.
CommandReadFailed ==
    /\ CommandReplyReturned
    /\ reads # << >>
    /\ reads[Len(reads)].err = NetErr

\* C12: error-carrying termination.  With no interrupt fired, what
\* interactiveMode returns is the value the command goroutine left its loop
\* with, and after a failed read of a command's reply the goroutine leaves
\* its loop with that network error.  (Stated for sessions whose own request
\* id is not the reserved -1.)
ErrorCarryingTermination ==
    (requestID # -1 /\ NoInterrupt) =>
        /\ (cmdPc \in {"deliver", "blocked", "done"} /\ result # "pending") => result = cmdErr
        /\ CommandReadFailed =>
             \/ cmdPc = "handle"
             \/ cmdPc \in {"deliver", "blocked", "done"} /\ cmdErr = NetErr

\* C13: read failures propagate.  When the last conn.Read of a receivePacket
\* call failed with a network error, the call has ended and returned no data
\* and that error, whatever it had accumulated; in login the error is what
\* login returns.
ReadFailuresPropagate ==
    (reads # << >> /\ reads[Len(reads)].err = NetErr) =>
        /\ ~Receiving
        /\ response = [data |-> << >>, err |-> NetErr]
        /\ LoginReturned => loginErr = NetErr

\* receivePacket has returned an empty buffer to the command goroutine.
EmptyReply == CommandReplyReturned /\ response.data = << >>

\* C14, as claimed: when receivePacket returns an empty buffer for a
\* command, nothing is parsed or printed for it, the goroutine leaves its
\* loop with "No response received", and that error is what interactiveMode
\* returns.  (Stated for sessions whose own request id is not the reserved
\* -1.)
EmptyReplyFails ==
    (requestID # -1 /\ EmptyReply) =>
        /\ exit # "panic"
        /\ \/ cmdPc = "handle"
           \/ cmdPc \in {"deliver", "blocked", "done"} /\ cmdErr = NoResponse
        /\ printCount = CommandsWritten - 1
        /\ result # "pending" => result = NoResponse

\* C14, amended: as above, but interactiveMode returns "No response
\* received" unless the signal goroutine's nil was in errchan first, and
\* then it returns nil.
EmptyReplyFailsFirstWins ==
    EmptyReply =>
        /\ exit # "panic"
        /\ \/ cmdPc = "handle"
           \/ cmdPc \in {"deliver", "blocked", "done"} /\ cmdErr = NoResponse
        /\ printCount = CommandsWritten - 1
        /\ result # "pending" =>
             \/ result = NoResponse
             \/ result = "nil" /\ sigPc = "done"
        /\ (NoInterrupt /\ result # "pending") => result = NoResponse

\* The first command got no reply and, with no interrupt, interactiveMode
\* returned "No response received"; nothing was printed.
EmptyReplyFailsWitness ==
    /\ EmptyReply
    /\ NoInterrupt
    /\ cmdPc = "done"
    /\ CommandsWritten = 1
    /\ printCount = 0
    /\ result = NoResponse
    /\ exit = "ok"

\* A buffer parsePacket cannot slice within its length: shorter than the
\* header, shorter than the declared size + 2, or declaring a size below 10.
TooShort(data) ==
    \/ Len(data) < HEADERSIZE
    \/ Len(data) < PayloadEnd(data)
    \/ HeaderField(data, 1) < 10

\* C15: bounds-checked parse.  The process never panics, and a received
\* buffer that is too short is never parsed as a packet: login does not
\* return nil on it and the command loop prints nothing for it.
BoundsCheckedParse ==
    /\ exit # "panic"
    /\ (LoginReplyParsed /\ TooShort(response.data)) => loginErr # "nil"
    /\ (CommandReplyReturned /\ TooShort(response.data))
         => printCount = CommandsWritten - 1

AuthenticationGate ==
    /\ loginErr # "nil" =>
         /\ cmdPc = "off"
         /\ sigPc = "off"
         /\ mainPc \notin {"interactive", "close", "return"}
         /\ CommandsWritten = 0
         /\ Len(history) <= 2
         /\ \A i \in DOMAIN history : history[i].type = LOGINTYPE
    /\ (exit = "error" /\ loginErr = "pending") => history = << >>
    /\ (exit = "error" /\ mainPc = "done") => loginErr # "nil"

\* login returned "Password is incorrect" and main exited: only the Login
\* exchange is on the connection.
AuthenticationGateWitness ==
    /\ loginErr = PasswordIncorrect
    /\ exit = "error"
    /\ mainPc = "done"
    /\ cmdPc = "off"
    /\ history = << Event("write", LOGINTYPE), Event("recv", LOGINTYPE) >>

\* C18: exclusive use of the connection.  main does not close the
\* connection while the command goroutine is inside receivePacket, waiting
\* in a conn.Read, and once the connection is closed the command goroutine
\* makes no further conn.Read or conn.Write on it.  (Stated for sessions
\* whose own request id is not the reserved -1.)
ExclusiveUse ==
    [][ requestID # -1 =>
          /\ (conn = "open" /\ conn' = "closed") => cmdPc # "recv"
          /\ conn = "closed" =>
               /\ reads' = reads
               /\ ~(cmdPc = "send" /\ cmdPc' # "send") ]_vars

\* One whole frame and nothing else: the declared size accounts for every
\* byte, at least the ten of an empty payload.
WellFormed(data) ==
    /\ Len(data) >= HEADERSIZE + 2
    /\ HeaderField(data, 1) + 4 = Len(data)

TerminationDelivery ==
    /\ Len(errchan) <= 1
    /\ result = "pending" => ~(sigPc = "done" /\ cmdPc = "done")
    /\ (result # "pending" /\ sigPc # "done") => result = cmdErr
    /\ (result # "pending" /\ cmdPc # "done") => result = "nil"
    /\ exit # "running" => (sigPc # "blocked" /\ cmdPc # "blocked")
    /\ (exit # "running" /\ (sigPc = "done" \/ cmdPc = "done"))
         => result # "pending"

====
